---- MODULE Spec2Model ----
(***************************************************************************)
(* A model of folder_lock.py: the credential files, the lock registry     *)
(* file, the folders and the vault directories, and the commands setup,   *)
(* lock, unlock and admin {change-pass, change-admin, status, unlock-all}. *)
(* Each command is a sequence of steps (one per file-system call or        *)
(* prompt), so that an interruption between two steps can be expressed.    *)
(***************************************************************************)
EXTENDS Integers, Sequences, FiniteSets, TLC

(* ------------------------------ bounds -------------------------------- *)

\* The clock has second resolution (strftime "%Y%m%d_%H%M%S"); it runs 0..MaxClock.
MaxClock == 1

\* os.urandom(32) is modelled as a draw from 1..NumSalts.
NumSalts == 1

\* Number of tool invocations that may run at the same time.
NumProcs == 2

(* --------------------------- program constants ------------------------ *)

MinPasswordLen == 6

(* ------------------------------- paths -------------------------------- *)

\* A path is the sequence of its components; an absolute path starts with "/".
Cwd == <<"/", "tmp">>

X == <<"/", "tmp", "x">>
RelX == <<"x">>
DotX == <<"/", "tmp", "y", "..", "x">>
Y == <<"/", "tmp", "y">>
Missing == <<"/", "tmp", "missing">>
F == <<"/", "tmp", "f.txt">>

\* The folder arguments a caller may type: all of them, those that name each
\* folder in one way only, those that name /tmp/x in several ways, and those
\* that name one folder only.
Args == {X, RelX, DotX, Y, Missing, F}
PlainArgs == {X, RelX, Y, Missing, F}
AliasArgs == {X, RelX, DotX}
OneFolderArgs == {X, Missing}
TwoFolderArgs == {X, Y}

\* Path(folder_path).absolute(): prefixes the working directory to a relative
\* path; it does not collapse ".." and does not resolve anything.
absolute(path) == IF path[1] = "/" THEN path ELSE Cwd \o path

\* folder.name: the last component.
name(path) == path[Len(path)]

\* What the operating system does with a path when it opens it: "d/.." is
\* dropped (no component of the model is a symbolic link).
RECURSIVE Resolve(_)
Resolve(path) ==
    IF \E i \in 2..Len(path) : path[i] = ".."
    THEN LET i == CHOOSE j \in 2..Len(path) :
                     path[j] = ".." /\ \A k \in 2..(j - 1) : path[k] # ".."
         IN  Resolve(SubSeq(path, 1, i - 2) \o SubSeq(path, i + 1, Len(path)))
    ELSE path

\* The places of the file system the model follows, and the registry keys
\* (str(folder)) the arguments can produce.
Places == {Resolve(absolute(a)) : a \in Args}
Keys == {absolute(a) : a \in Args}

\* What the two folders hold at the start: /tmp/x two children, /tmp/y none.
ContentsX == {"a.txt", "b.txt"}
ContentsY == {}

\* hidden_dir / f"{folder.name}_{timestamp}"
Names == {name(k) : k \in Keys}
VaultPaths == Names \X (0..MaxClock)

NoVault == [exists |-> FALSE, items |-> {}]

(* ----------------------------- credentials ---------------------------- *)

Roles == {"user", "admin"}

\* What may be typed at a password prompt: the empty string (too short to be
\* set) and two acceptable passwords.
Passwords == {"", "secret1", "adminpw"}

Salts == 1..NumSalts

\* A file is absent, empty (opened for writing, nothing written yet) or full.
NoData == <<>>
Absent == [st |-> "absent", data |-> NoData]
Truncated == [st |-> "empty", data |-> NoData]
Full(d) == [st |-> "full", data |-> d]

\* generate_salt(): a fresh draw, which may repeat an earlier one.
generate_salt == Salts

\* hashlib.pbkdf2_hmac('sha256', password, salt, 100000): a function of the
\* password and the salt, modelled as collision free.
pbkdf2_hmac(password, salt) == <<"pbkdf2", password, salt>>

\* A slip: the digest is taken of the salt alone.
hash_password_of_salt(password, salt) ==
    [salt |-> salt, hash |-> pbkdf2_hmac("", salt)]

hash_password(password, salt) ==
    [salt |-> salt, hash |-> pbkdf2_hmac(password, salt)]

\* A slip: the salts are compared, not the digests.
verify_password_by_salt(password, stored_data) ==
    hash_password(password, stored_data.salt).salt = stored_data.salt

verify_password(password, stored_data) ==
    hash_password(password, stored_data.salt).hash = stored_data.hash

(* ------------------------------- state -------------------------------- *)

VARIABLES
    admin_hash_file,   \* .config/admin_hash.json
    user_hash_file,    \* .config/user_hash.json
    lock_status_file,  \* .config/lock_status.json
    fs,                \* the places: kind and, for a directory, its children
    vault,             \* .config/.locked_data: the vault directories
    now,               \* the clock, in seconds
    proc,              \* each invocation: its position and its locals
    pre,               \* history: the persisted state when the command started
    lastSet,           \* history: the password last written for each role
    lastLock           \* history: the last command, if it was a lock that succeeded

vars == <<admin_hash_file, user_hash_file, lock_status_file, fs, vault, now,
          proc, pre, lastSet, lastLock>>

Procs == 1..NumProcs

\* The locals of an invocation that is not running.
Idle ==
    [pc |-> "idle", cmd |-> "none", sub |-> "none", folder |-> <<>>,
     entered |-> "", asked |-> FALSE, authed |-> FALSE,
     admin_pass |-> "", user_pass |-> "", new_pass |-> "",
     lock_status |-> NoData, hidden_path |-> <<>>, todo |-> {},
     items_moved |-> 0, warnings |-> 0, keys |-> {}, cur |-> <<>>, failed |-> {},
     unlocked_count |-> 0, writes |-> 0, shown |-> NoData, result |-> "none",
     stopped |-> "none"]

Persisted ==
    [admin |-> admin_hash_file, user |-> user_hash_file,
     registry |-> lock_status_file, fs |-> fs, vault |-> vault]

NoSnapshot == <<>>
NoLock == <<>>

AllIdle == \A p \in Procs : proc[p].pc = "idle"

Init ==
    /\ admin_hash_file = Absent
    /\ user_hash_file = Absent
    /\ lock_status_file = Absent
    /\ fs = [pl \in Places |->
                 IF pl = X THEN [kind |-> "dir", items |-> ContentsX]
                 ELSE IF pl = Y THEN [kind |-> "dir", items |-> ContentsY]
                 ELSE IF pl = F THEN [kind |-> "file", items |-> {}]
                 ELSE [kind |-> "none", items |-> {}]]
    /\ vault = [v \in VaultPaths |-> NoVault]
    /\ now = 0
    /\ proc = [p \in Procs |-> Idle]
    /\ pre = [p \in Procs |-> NoSnapshot]
    /\ lastSet = [r \in Roles |-> "none"]
    /\ lastLock = NoLock

(* ------------------------------ helpers ------------------------------- *)

\* The invocation p continues with its locals changed to r.
Goto(p, r) == proc' = [proc EXCEPT ![p] = r]

\* The invocation p returns (or an exception reaches main) with an outcome.
Finish(p, outcome) ==
    proc' = [proc EXCEPT ![p] = [@ EXCEPT !.pc = "done", !.result = outcome]]

\* A command starts: the persisted state is remembered for the history.
Begin(p) ==
    /\ proc[p].pc = "idle"
    /\ pre' = [pre EXCEPT ![p] = Persisted]

\* json.load of a file that is missing or empty raises.
Readable(file) == file.st = "full"

\* A slip: the entry is not added.
InsertNothing(mapping, key, value) == mapping

\* dict[key] = value  and  del dict[key]
Insert(mapping, key, value) ==
    [k \in (DOMAIN mapping) \cup {key} |-> IF k = key THEN value ELSE mapping[k]]

\* A slip: the entry is not deleted.
RemoveNothing(mapping, key) == mapping

Remove(mapping, key) == [k \in (DOMAIN mapping) \ {key} |-> mapping[k]]

\* A slip: the folder is looked up by its name, not by its path.
in_lock_status_by_name(folder_str, lock_status) ==
    <<name(folder_str)>> \in DOMAIN lock_status

\* folder_str in lock_status
in_lock_status(folder_str, lock_status) == folder_str \in DOMAIN lock_status

\* A slip: the vault directory is taken to be there.
hidden_path_assumed(hidden_path) == TRUE

\* hidden_path.exists(), in unlock_folder
hidden_path_exists(hidden_path) == vault[hidden_path].exists

\* A slip: setup does not look for an earlier configuration.
admin_hash_file_unchecked == FALSE

\* self.admin_hash_file.exists(), in initial_setup
admin_hash_file_exists == admin_hash_file.st # "absent"

\* shutil.move(str(item), str(directory)) succeeds when the operating system
\* lets it (ok), the item is still there and the directory holds no entry of
\* that name ("Destination path already exists" otherwise).
CanMove(ok, item, source, target) == ok /\ item \in source /\ item \notin target

\* The password prompts of setup and of the two change commands: asked again
\* until the two entries agree and are long enough.
Accepted(password, confirm) ==
    password = confirm /\ Len(password) >= MinPasswordLen

\* confirmation.lower()
lower(answer) == IF answer = "YES" THEN "yes" ELSE answer

Confirmations == {"yes", "YES", "no"}

(* --------------------------- authentication --------------------------- *)

\* authenticate_user / authenticate_admin: without the file the command ends
\* "not configured"; a file that cannot be parsed raises; otherwise a
\* password is asked for and verified against the stored record.
Authenticate(p, file, next) ==
    IF file.st = "absent" THEN Finish(p, "not_configured")
    ELSE IF ~Readable(file) THEN Finish(p, "error")
    ELSE \E password \in Passwords :
           LET r == [proc[p] EXCEPT !.entered = password, !.asked = TRUE] IN
           IF verify_password(password, file.data)
           THEN Goto(p, [r EXCEPT !.authed = TRUE, !.pc = next,
                                  !.result = IF next = "done" THEN "help" ELSE "none"])
           ELSE Goto(p, [r EXCEPT !.pc = "done", !.result = "auth_failed"])

\* A slip: a lock looks the folder up in the registry before it asks for the
\* password.
authenticate_user_after_lookup(p) ==
    /\ proc[p].pc = "auth_user"
    /\ IF /\ proc[p].cmd = "lock"
          /\ Readable(lock_status_file)
          /\ proc[p].folder \in DOMAIN lock_status_file.data
       THEN Finish(p, "already_locked")
       ELSE Authenticate(p, user_hash_file,
                         IF proc[p].cmd = "lock" THEN "lock_load" ELSE "unlock_load")
    /\ UNCHANGED <<admin_hash_file, user_hash_file, lock_status_file, fs, vault,
                   now, pre, lastSet, lastLock>>

\* A slip: without the credential file the command goes on.
authenticate_user_unconfigured(p) ==
    /\ proc[p].pc = "auth_user"
    /\ IF user_hash_file.st = "absent"
       THEN Goto(p, [proc[p] EXCEPT !.pc = IF proc[p].cmd = "lock"
                                          THEN "lock_load" ELSE "unlock_load"])
       ELSE Authenticate(p, user_hash_file,
                         IF proc[p].cmd = "lock" THEN "lock_load" ELSE "unlock_load")
    /\ UNCHANGED <<admin_hash_file, user_hash_file, lock_status_file, fs, vault,
                   now, pre, lastSet, lastLock>>

authenticate_user(p) ==
    /\ proc[p].pc = "auth_user"
    /\ Authenticate(p, user_hash_file,
                    IF proc[p].cmd = "lock" THEN "lock_load" ELSE "unlock_load")
    /\ UNCHANGED <<admin_hash_file, user_hash_file, lock_status_file, fs, vault,
                   now, pre, lastSet, lastLock>>

\* admin_mode's dispatch on args.admin_command, once authenticated.
Dispatch(sub) ==
    CASE sub = "change-pass" -> "chg_user_prompt"
      [] sub = "change-admin" -> "chg_admin_prompt"
      [] sub = "status" -> "status"
      [] sub = "unlock-all" -> "ua_confirm"
      [] OTHER -> "done"

\* A slip: the sub-command runs whatever the password was.
authenticate_admin_unchecked(p) ==
    /\ proc[p].pc = "auth_admin"
    /\ Readable(admin_hash_file)
    /\ \E password \in Passwords :
         Goto(p, [proc[p] EXCEPT
                    !.entered = password, !.asked = TRUE,
                    !.authed = verify_password(password, admin_hash_file.data),
                    !.pc = Dispatch(proc[p].sub),
                    !.result = IF Dispatch(proc[p].sub) = "done"
                               THEN "help" ELSE "none"])
    /\ UNCHANGED <<admin_hash_file, user_hash_file, lock_status_file, fs, vault,
                   now, pre, lastSet, lastLock>>

authenticate_admin(p) ==
    /\ proc[p].pc = "auth_admin"
    /\ Authenticate(p, admin_hash_file, Dispatch(proc[p].sub))
    /\ UNCHANGED <<admin_hash_file, user_hash_file, lock_status_file, fs, vault,
                   now, pre, lastSet, lastLock>>

(* -------------------------------- setup ------------------------------- *)

\* A slip: the admin credential file is opened for writing before the
\* passwords are asked for.
initial_setup_begin_opening(p) ==
    /\ Begin(p)
    /\ IF admin_hash_file_exists
       THEN /\ Goto(p, [proc[p] EXCEPT !.cmd = "setup", !.pc = "done",
                                       !.result = "already_configured"])
            /\ UNCHANGED admin_hash_file
       ELSE /\ Goto(p, [proc[p] EXCEPT !.cmd = "setup", !.pc = "setup_admin_prompt"])
            /\ admin_hash_file' = Truncated
    /\ UNCHANGED <<user_hash_file, lock_status_file, fs, vault, now, lastSet,
                   lastLock>>

initial_setup_begin(p) ==
    /\ Begin(p)
    /\ IF admin_hash_file_exists
       THEN Goto(p, [proc[p] EXCEPT !.cmd = "setup", !.pc = "done",
                                    !.result = "already_configured"])
       ELSE Goto(p, [proc[p] EXCEPT !.cmd = "setup", !.pc = "setup_admin_prompt"])
    /\ UNCHANGED <<admin_hash_file, user_hash_file, lock_status_file, fs, vault,
                   now, lastSet, lastLock>>

initial_setup_admin_prompt(p) ==
    /\ proc[p].pc = "setup_admin_prompt"
    /\ \E admin_pass \in Passwords, admin_pass_confirm \in Passwords :
         IF Accepted(admin_pass, admin_pass_confirm)
         THEN Goto(p, [proc[p] EXCEPT !.admin_pass = admin_pass,
                                      !.pc = "setup_user_prompt"])
         ELSE UNCHANGED proc
    /\ UNCHANGED <<admin_hash_file, user_hash_file, lock_status_file, fs, vault,
                   now, pre, lastSet, lastLock>>

initial_setup_user_prompt(p) ==
    /\ proc[p].pc = "setup_user_prompt"
    /\ \E user_pass \in Passwords, user_pass_confirm \in Passwords :
         IF Accepted(user_pass, user_pass_confirm)
         THEN Goto(p, [proc[p] EXCEPT !.user_pass = user_pass,
                                      !.pc = "setup_open_admin"])
         ELSE UNCHANGED proc
    /\ UNCHANGED <<admin_hash_file, user_hash_file, lock_status_file, fs, vault,
                   now, pre, lastSet, lastLock>>

initial_setup_open_admin(p) ==
    /\ proc[p].pc = "setup_open_admin"
    /\ admin_hash_file' = Truncated
    /\ Goto(p, [proc[p] EXCEPT !.pc = "setup_dump_admin"])
    /\ UNCHANGED <<user_hash_file, lock_status_file, fs, vault, now, pre,
                   lastSet, lastLock>>

initial_setup_dump_admin(p) ==
    /\ proc[p].pc = "setup_dump_admin"
    /\ \E salt \in generate_salt :
         admin_hash_file' = Full(hash_password(proc[p].admin_pass, salt))
    /\ lastSet' = [lastSet EXCEPT !["admin"] = proc[p].admin_pass]
    /\ Goto(p, [proc[p] EXCEPT !.pc = "setup_open_user"])
    /\ UNCHANGED <<user_hash_file, lock_status_file, fs, vault, now, pre, lastLock>>

initial_setup_open_user(p) ==
    /\ proc[p].pc = "setup_open_user"
    /\ user_hash_file' = Truncated
    /\ Goto(p, [proc[p] EXCEPT !.pc = "setup_dump_user"])
    /\ UNCHANGED <<admin_hash_file, lock_status_file, fs, vault, now, pre,
                   lastSet, lastLock>>

initial_setup_dump_user(p) ==
    /\ proc[p].pc = "setup_dump_user"
    /\ \E salt \in generate_salt :
         user_hash_file' = Full(hash_password(proc[p].user_pass, salt))
    /\ lastSet' = [lastSet EXCEPT !["user"] = proc[p].user_pass]
    /\ Goto(p, [proc[p] EXCEPT !.pc = "setup_open_status"])
    /\ UNCHANGED <<admin_hash_file, lock_status_file, fs, vault, now, pre, lastLock>>

initial_setup_open_status(p) ==
    /\ proc[p].pc = "setup_open_status"
    /\ lock_status_file' = Truncated
    /\ Goto(p, [proc[p] EXCEPT !.pc = "setup_dump_status"])
    /\ UNCHANGED <<admin_hash_file, user_hash_file, fs, vault, now, pre,
                   lastSet, lastLock>>

initial_setup_dump_status(p) ==
    /\ proc[p].pc = "setup_dump_status"
    /\ lock_status_file' = Full(<<>>)
    /\ Goto(p, [proc[p] EXCEPT !.pc = "done", !.result = "setup_complete",
                               !.writes = @ + 1])
    /\ UNCHANGED <<admin_hash_file, user_hash_file, fs, vault, now, pre,
                   lastSet, lastLock>>

(* -------------------------------- lock -------------------------------- *)

\* lock_folder: the validation of the argument.
lock_folder_begin(p, folder_path) ==
    /\ Begin(p)
    /\ LET folder == absolute(folder_path)
           r == [proc[p] EXCEPT !.cmd = "lock", !.folder = folder]
       IN  IF fs[Resolve(folder)].kind = "none"
           THEN Goto(p, [r EXCEPT !.pc = "done", !.result = "not_found"])
           ELSE IF fs[Resolve(folder)].kind # "dir"
           THEN Goto(p, [r EXCEPT !.pc = "done", !.result = "not_a_folder"])
           ELSE Goto(p, [r EXCEPT !.pc = "auth_user"])
    /\ UNCHANGED <<admin_hash_file, user_hash_file, lock_status_file, fs, vault,
                   now, lastSet, lastLock>>

\* lock_folder: the registry is loaded and the folder looked up in it.
lock_folder_load(p) ==
    /\ proc[p].pc = "lock_load"
    /\ IF ~Readable(lock_status_file) THEN Finish(p, "error")
       ELSE IF in_lock_status(proc[p].folder, lock_status_file.data)
       THEN Goto(p, [proc[p] EXCEPT !.lock_status = lock_status_file.data,
                                    !.pc = "done", !.result = "already_locked"])
       ELSE Goto(p, [proc[p] EXCEPT !.lock_status = lock_status_file.data,
                                    !.pc = "lock_mkdir"])
    /\ UNCHANGED <<admin_hash_file, user_hash_file, lock_status_file, fs, vault,
                   now, pre, lastSet, lastLock>>

\* A slip: mkdir(exist_ok=True), so a directory that is there is used.
lock_folder_mkdir_exist_ok(p) ==
    /\ proc[p].pc = "lock_mkdir"
    /\ LET hidden_path == <<name(proc[p].folder), now>> IN
       /\ vault' = [vault EXCEPT ![hidden_path].exists = TRUE]
       /\ Goto(p, [proc[p] EXCEPT !.hidden_path = hidden_path,
                                  !.todo = fs[Resolve(proc[p].folder)].items,
                                  !.items_moved = 0,
                                  !.pc = "lock_move"])
    /\ UNCHANGED <<admin_hash_file, user_hash_file, lock_status_file, fs, now,
                   pre, lastSet, lastLock>>

\* lock_folder: the vault path is derived from the folder's name and the
\* second; hidden_path.mkdir() raises when the directory exists; the
\* children of the folder are listed once, before the first move.
lock_folder_mkdir(p) ==
    /\ proc[p].pc = "lock_mkdir"
    /\ LET hidden_path == <<name(proc[p].folder), now>> IN
       IF vault[hidden_path].exists
       THEN /\ Goto(p, [proc[p] EXCEPT !.hidden_path = hidden_path,
                                       !.pc = "done", !.result = "error"])
            /\ UNCHANGED vault
       ELSE /\ vault' = [vault EXCEPT ![hidden_path] = [exists |-> TRUE, items |-> {}]]
            /\ Goto(p, [proc[p] EXCEPT !.hidden_path = hidden_path,
                                       !.todo = fs[Resolve(proc[p].folder)].items,
                                       !.items_moved = 0,
                                       !.pc = "lock_move"])
    /\ UNCHANGED <<admin_hash_file, user_hash_file, lock_status_file, fs, now,
                   pre, lastSet, lastLock>>

\* A slip: a child is counted before it is moved, so also when its move fails.
lock_folder_move_counting(p) ==
    /\ proc[p].pc = "lock_move"
    /\ \E item \in proc[p].todo, ok \in BOOLEAN :
         LET folder == Resolve(proc[p].folder)
             hidden_path == proc[p].hidden_path
         IN  IF CanMove(ok, item, fs[folder].items, vault[hidden_path].items)
             THEN /\ fs' = [fs EXCEPT ![folder].items = @ \ {item}]
                  /\ vault' = [vault EXCEPT ![hidden_path].items = @ \cup {item}]
                  /\ Goto(p, [proc[p] EXCEPT !.todo = @ \ {item},
                                             !.items_moved = @ + 1])
             ELSE /\ UNCHANGED <<fs, vault>>
                  /\ Goto(p, [proc[p] EXCEPT !.todo = @ \ {item},
                                             !.items_moved = @ + 1,
                                             !.warnings = @ + 1])
    /\ UNCHANGED <<admin_hash_file, user_hash_file, lock_status_file, now, pre,
                   lastSet, lastLock>>

\* lock_folder: one turn of the loop over the children; a move that fails is
\* reported and the loop goes on.
lock_folder_move(p) ==
    /\ proc[p].pc = "lock_move"
    /\ \E item \in proc[p].todo, ok \in BOOLEAN :
         LET folder == Resolve(proc[p].folder)
             hidden_path == proc[p].hidden_path
         IN  IF CanMove(ok, item, fs[folder].items, vault[hidden_path].items)
             THEN /\ fs' = [fs EXCEPT ![folder].items = @ \ {item}]
                  /\ vault' = [vault EXCEPT ![hidden_path].items = @ \cup {item}]
                  /\ Goto(p, [proc[p] EXCEPT !.todo = @ \ {item},
                                             !.items_moved = @ + 1])
             ELSE /\ UNCHANGED <<fs, vault>>
                  /\ Goto(p, [proc[p] EXCEPT !.todo = @ \ {item},
                                             !.warnings = @ + 1])
    /\ UNCHANGED <<admin_hash_file, user_hash_file, lock_status_file, now, pre,
                   lastSet, lastLock>>

\* lock_folder: the entry is added to the loaded registry and the registry
\* file is opened for writing, which empties it.
lock_folder_open(p) ==
    /\ proc[p].pc = "lock_move"
    /\ proc[p].todo = {}
    /\ lock_status_file' = Truncated
    /\ Goto(p, [proc[p] EXCEPT
                  !.lock_status = Insert(@, proc[p].folder,
                                         [hidden_path |-> proc[p].hidden_path,
                                          locked_at |-> now,
                                          items_count |-> proc[p].items_moved]),
                  !.pc = "lock_dump"])
    /\ UNCHANGED <<admin_hash_file, user_hash_file, fs, vault, now, pre,
                   lastSet, lastLock>>

\* lock_folder: json.dump writes the registry.
lock_folder_dump(p) ==
    /\ proc[p].pc = "lock_dump"
    /\ lock_status_file' = Full(proc[p].lock_status)
    /\ Goto(p, [proc[p] EXCEPT !.pc = "done", !.result = "locked",
                               !.writes = @ + 1])
    /\ UNCHANGED <<admin_hash_file, user_hash_file, fs, vault, now, pre,
                   lastSet, lastLock>>

(* ------------------------------- unlock ------------------------------- *)

unlock_folder_begin(p, folder_path) ==
    /\ Begin(p)
    /\ Goto(p, [proc[p] EXCEPT !.cmd = "unlock", !.folder = absolute(folder_path),
                               !.pc = "auth_user"])
    /\ UNCHANGED <<admin_hash_file, user_hash_file, lock_status_file, fs, vault,
                   now, lastSet, lastLock>>

\* folder.mkdir(exist_ok=True): creates a missing folder, raises when the
\* path is taken by something that is no directory.
MkdirExistOk(files, folder) ==
    IF files[folder].kind = "none"
    THEN [files EXCEPT ![folder] = [kind |-> "dir", items |-> {}]]
    ELSE files

\* unlock_folder: the registry is loaded, the entry and its vault directory
\* are looked up, the folder is created if it is missing and the vault's
\* children are listed.
unlock_folder_load(p) ==
    /\ proc[p].pc = "unlock_load"
    /\ LET folder == proc[p].folder
           r == [proc[p] EXCEPT !.lock_status = lock_status_file.data]
       IN  IF ~Readable(lock_status_file)
           THEN Finish(p, "error") /\ UNCHANGED fs
           ELSE IF ~in_lock_status(folder, lock_status_file.data)
           THEN Goto(p, [r EXCEPT !.pc = "done", !.result = "not_locked"])
                /\ UNCHANGED fs
           ELSE LET hidden_path == lock_status_file.data[folder].hidden_path IN
                IF ~hidden_path_exists(hidden_path)
                THEN Goto(p, [r EXCEPT !.pc = "done", !.result = "hidden_missing"])
                     /\ UNCHANGED fs
                ELSE IF fs[Resolve(folder)].kind = "file"
                THEN Goto(p, [r EXCEPT !.pc = "done", !.result = "error"])
                     /\ UNCHANGED fs
                ELSE /\ fs' = MkdirExistOk(fs, Resolve(folder))
                     /\ Goto(p, [r EXCEPT !.hidden_path = hidden_path,
                                          !.todo = vault[hidden_path].items,
                                          !.items_moved = 0,
                                          !.pc = "unlock_move"])
    /\ UNCHANGED <<admin_hash_file, user_hash_file, lock_status_file, vault, now,
                   pre, lastSet, lastLock>>

\* unlock_folder: one turn of the loop over the vault's children.
unlock_folder_move(p) ==
    /\ proc[p].pc = "unlock_move"
    /\ \E item \in proc[p].todo, ok \in BOOLEAN :
         LET folder == Resolve(proc[p].folder)
             hidden_path == proc[p].hidden_path
         IN  IF CanMove(ok /\ fs[folder].kind = "dir", item,
                        vault[hidden_path].items, fs[folder].items)
             THEN /\ vault' = [vault EXCEPT ![hidden_path].items = @ \ {item}]
                  /\ fs' = [fs EXCEPT ![folder].items = @ \cup {item}]
                  /\ Goto(p, [proc[p] EXCEPT !.todo = @ \ {item},
                                             !.items_moved = @ + 1])
             ELSE /\ UNCHANGED <<fs, vault>>
                  /\ Goto(p, [proc[p] EXCEPT !.todo = @ \ {item},
                                             !.warnings = @ + 1])
    /\ UNCHANGED <<admin_hash_file, user_hash_file, lock_status_file, now, pre,
                   lastSet, lastLock>>

\* A slip: the directory is removed with what it holds.
Rmtree(vaults, hidden_path) == [vaults EXCEPT ![hidden_path] = NoVault]

\* hidden_path.rmdir(): removes the directory when it is empty, raises otherwise.
Rmdir(vaults, hidden_path) ==
    IF vaults[hidden_path].exists /\ vaults[hidden_path].items = {}
    THEN [vaults EXCEPT ![hidden_path] = NoVault]
    ELSE vaults

\* unlock_folder: the vault directory is removed if it can be (a failure is
\* swallowed) and the entry is deleted from the loaded registry.
unlock_folder_rmdir(p) ==
    /\ proc[p].pc = "unlock_move"
    /\ proc[p].todo = {}
    /\ vault' = Rmdir(vault, proc[p].hidden_path)
    /\ Goto(p, [proc[p] EXCEPT !.lock_status = Remove(@, proc[p].folder),
                               !.pc = "unlock_open"])
    /\ UNCHANGED <<admin_hash_file, user_hash_file, lock_status_file, fs, now,
                   pre, lastSet, lastLock>>

unlock_folder_open(p) ==
    /\ proc[p].pc = "unlock_open"
    /\ lock_status_file' = Truncated
    /\ Goto(p, [proc[p] EXCEPT !.pc = "unlock_dump"])
    /\ UNCHANGED <<admin_hash_file, user_hash_file, fs, vault, now, pre,
                   lastSet, lastLock>>

unlock_folder_dump(p) ==
    /\ proc[p].pc = "unlock_dump"
    /\ lock_status_file' = Full(proc[p].lock_status)
    /\ Goto(p, [proc[p] EXCEPT !.pc = "done", !.result = "unlocked",
                               !.writes = @ + 1])
    /\ UNCHANGED <<admin_hash_file, user_hash_file, fs, vault, now, pre,
                   lastSet, lastLock>>

(* -------------------------------- admin ------------------------------- *)

AdminCommands == {"change-pass", "change-admin", "status", "unlock-all", "none"}

admin_mode_begin(p, admin_command) ==
    /\ Begin(p)
    /\ Goto(p, [proc[p] EXCEPT !.cmd = "admin", !.sub = admin_command,
                               !.pc = "auth_admin"])
    /\ UNCHANGED <<admin_hash_file, user_hash_file, lock_status_file, fs, vault,
                   now, lastSet, lastLock>>

change_user_password_prompt(p) ==
    /\ proc[p].pc = "chg_user_prompt"
    /\ \E new_pass \in Passwords, new_pass_confirm \in Passwords :
         IF Accepted(new_pass, new_pass_confirm)
         THEN Goto(p, [proc[p] EXCEPT !.new_pass = new_pass, !.pc = "chg_user_open"])
         ELSE UNCHANGED proc
    /\ UNCHANGED <<admin_hash_file, user_hash_file, lock_status_file, fs, vault,
                   now, pre, lastSet, lastLock>>

change_user_password_open(p) ==
    /\ proc[p].pc = "chg_user_open"
    /\ user_hash_file' = Truncated
    /\ Goto(p, [proc[p] EXCEPT !.pc = "chg_user_dump"])
    /\ UNCHANGED <<admin_hash_file, lock_status_file, fs, vault, now, pre,
                   lastSet, lastLock>>

change_user_password_dump(p) ==
    /\ proc[p].pc = "chg_user_dump"
    /\ \E salt \in generate_salt :
         user_hash_file' = Full(hash_password(proc[p].new_pass, salt))
    /\ lastSet' = [lastSet EXCEPT !["user"] = proc[p].new_pass]
    /\ Goto(p, [proc[p] EXCEPT !.pc = "done", !.result = "user_password_changed"])
    /\ UNCHANGED <<admin_hash_file, lock_status_file, fs, vault, now, pre, lastLock>>

change_admin_password_prompt(p) ==
    /\ proc[p].pc = "chg_admin_prompt"
    /\ \E new_pass \in Passwords, new_pass_confirm \in Passwords :
         IF Accepted(new_pass, new_pass_confirm)
         THEN Goto(p, [proc[p] EXCEPT !.new_pass = new_pass, !.pc = "chg_admin_open"])
         ELSE UNCHANGED proc
    /\ UNCHANGED <<admin_hash_file, user_hash_file, lock_status_file, fs, vault,
                   now, pre, lastSet, lastLock>>

change_admin_password_open(p) ==
    /\ proc[p].pc = "chg_admin_open"
    /\ admin_hash_file' = Truncated
    /\ Goto(p, [proc[p] EXCEPT !.pc = "chg_admin_dump"])
    /\ UNCHANGED <<user_hash_file, lock_status_file, fs, vault, now, pre,
                   lastSet, lastLock>>

change_admin_password_dump(p) ==
    /\ proc[p].pc = "chg_admin_dump"
    /\ \E salt \in generate_salt :
         admin_hash_file' = Full(hash_password(proc[p].new_pass, salt))
    /\ lastSet' = [lastSet EXCEPT !["admin"] = proc[p].new_pass]
    /\ Goto(p, [proc[p] EXCEPT !.pc = "done", !.result = "admin_password_changed"])
    /\ UNCHANGED <<user_hash_file, lock_status_file, fs, vault, now, pre, lastLock>>

show_lock_status(p) ==
    /\ proc[p].pc = "status"
    /\ IF ~Readable(lock_status_file) THEN Finish(p, "error")
       ELSE Goto(p, [proc[p] EXCEPT !.shown = lock_status_file.data,
                                    !.pc = "done", !.result = "status_shown"])
    /\ UNCHANGED <<admin_hash_file, user_hash_file, lock_status_file, fs, vault,
                   now, pre, lastSet, lastLock>>

\* unlock_all_folders: the confirmation, then the registry is loaded.
unlock_all_folders_confirm(p) ==
    /\ proc[p].pc = "ua_confirm"
    /\ \E confirmation \in Confirmations :
         IF lower(confirmation) # "yes" THEN Finish(p, "not_confirmed")
         ELSE IF ~Readable(lock_status_file) THEN Finish(p, "error")
         ELSE Goto(p, [proc[p] EXCEPT !.lock_status = lock_status_file.data,
                                      !.keys = DOMAIN lock_status_file.data,
                                      !.unlocked_count = 0,
                                      !.pc = "ua_loop"])
    /\ UNCHANGED <<admin_hash_file, user_hash_file, lock_status_file, fs, vault,
                   now, pre, lastSet, lastLock>>

\* A slip: an entry whose vault directory is missing is kept, as unlock does.
unlock_all_folders_next_keeping(p) ==
    /\ proc[p].pc = "ua_loop"
    /\ \E folder_str \in proc[p].keys :
         LET hidden_path == proc[p].lock_status[folder_str].hidden_path
             r == [proc[p] EXCEPT !.keys = @ \ {folder_str}]
         IN  IF ~vault[hidden_path].exists \/ fs[Resolve(folder_str)].kind = "file"
             THEN /\ Goto(p, [r EXCEPT !.failed = @ \cup {folder_str}])
                  /\ UNCHANGED fs
             ELSE /\ fs' = MkdirExistOk(fs, Resolve(folder_str))
                  /\ Goto(p, [r EXCEPT !.cur = folder_str,
                                       !.hidden_path = hidden_path,
                                       !.todo = vault[hidden_path].items,
                                       !.pc = "ua_move"])
    /\ UNCHANGED <<admin_hash_file, user_hash_file, lock_status_file, vault, now,
                   pre, lastSet, lastLock>>

\* unlock_all_folders: the loop takes the next entry of the copy. An entry
\* whose vault directory is missing is deleted at once; an exception (here,
\* of folder.mkdir) is reported and the loop goes on with the entry kept.
unlock_all_folders_next(p) ==
    /\ proc[p].pc = "ua_loop"
    /\ \E folder_str \in proc[p].keys :
         LET hidden_path == proc[p].lock_status[folder_str].hidden_path
             r == [proc[p] EXCEPT !.keys = @ \ {folder_str}]
         IN  IF ~vault[hidden_path].exists
             THEN /\ Goto(p, [r EXCEPT !.lock_status = Remove(@, folder_str),
                                       !.unlocked_count = @ + 1])
                  /\ UNCHANGED fs
             ELSE IF fs[Resolve(folder_str)].kind = "file"
             THEN /\ Goto(p, [r EXCEPT !.failed = @ \cup {folder_str}])
                  /\ UNCHANGED fs
             ELSE /\ fs' = MkdirExistOk(fs, Resolve(folder_str))
                  /\ Goto(p, [r EXCEPT !.cur = folder_str,
                                       !.hidden_path = hidden_path,
                                       !.todo = vault[hidden_path].items,
                                       !.pc = "ua_move"])
    /\ UNCHANGED <<admin_hash_file, user_hash_file, lock_status_file, vault, now,
                   pre, lastSet, lastLock>>

\* A slip: the entry is deleted although a move has failed.
unlock_all_folders_move_deleting(p) ==
    /\ proc[p].pc = "ua_move"
    /\ \E item \in proc[p].todo, ok \in BOOLEAN :
         LET folder == Resolve(proc[p].cur)
             hidden_path == proc[p].hidden_path
         IN  IF CanMove(ok /\ fs[folder].kind = "dir", item,
                        vault[hidden_path].items, fs[folder].items)
             THEN /\ vault' = [vault EXCEPT ![hidden_path].items = @ \ {item}]
                  /\ fs' = [fs EXCEPT ![folder].items = @ \cup {item}]
                  /\ Goto(p, [proc[p] EXCEPT !.todo = @ \ {item}])
             ELSE /\ UNCHANGED <<fs, vault>>
                  /\ Goto(p, [proc[p] EXCEPT !.todo = {}, !.cur = <<>>,
                                             !.hidden_path = <<>>,
                                             !.lock_status = Remove(@, proc[p].cur),
                                             !.unlocked_count = @ + 1,
                                             !.pc = "ua_loop"])
    /\ UNCHANGED <<admin_hash_file, user_hash_file, lock_status_file, now, pre,
                   lastSet, lastLock>>

\* unlock_all_folders: one move of the inner loop; a move that fails raises,
\* which ends the work on this entry and keeps it.
unlock_all_folders_move(p) ==
    /\ proc[p].pc = "ua_move"
    /\ \E item \in proc[p].todo, ok \in BOOLEAN :
         LET folder == Resolve(proc[p].cur)
             hidden_path == proc[p].hidden_path
         IN  IF CanMove(ok /\ fs[folder].kind = "dir", item,
                        vault[hidden_path].items, fs[folder].items)
             THEN /\ vault' = [vault EXCEPT ![hidden_path].items = @ \ {item}]
                  /\ fs' = [fs EXCEPT ![folder].items = @ \cup {item}]
                  /\ Goto(p, [proc[p] EXCEPT !.todo = @ \ {item}])
             ELSE /\ UNCHANGED <<fs, vault>>
                  /\ Goto(p, [proc[p] EXCEPT !.todo = {}, !.cur = <<>>,
                                             !.hidden_path = <<>>,
                                             !.failed = @ \cup {proc[p].cur},
                                             !.pc = "ua_loop"])
    /\ UNCHANGED <<admin_hash_file, user_hash_file, lock_status_file, now, pre,
                   lastSet, lastLock>>

\* unlock_all_folders: the inner loop is over; hidden_path.rmdir() raises
\* when the directory is not empty, otherwise the entry is deleted.
unlock_all_folders_rmdir(p) ==
    /\ proc[p].pc = "ua_move"
    /\ proc[p].todo = {}
    /\ LET hidden_path == proc[p].hidden_path
           r == [proc[p] EXCEPT !.cur = <<>>, !.hidden_path = <<>>, !.pc = "ua_loop"]
       IN  IF vault[hidden_path].exists /\ vault[hidden_path].items = {}
           THEN /\ vault' = Rmdir(vault, hidden_path)
                /\ Goto(p, [r EXCEPT !.lock_status = Remove(@, proc[p].cur),
                                     !.unlocked_count = @ + 1])
           ELSE /\ UNCHANGED vault
                /\ Goto(p, [r EXCEPT !.failed = @ \cup {proc[p].cur}])
    /\ UNCHANGED <<admin_hash_file, user_hash_file, lock_status_file, fs, now,
                   pre, lastSet, lastLock>>

unlock_all_folders_open(p) ==
    /\ proc[p].pc = "ua_loop"
    /\ proc[p].keys = {}
    /\ lock_status_file' = Truncated
    /\ Goto(p, [proc[p] EXCEPT !.pc = "ua_dump"])
    /\ UNCHANGED <<admin_hash_file, user_hash_file, fs, vault, now, pre,
                   lastSet, lastLock>>

unlock_all_folders_dump(p) ==
    /\ proc[p].pc = "ua_dump"
    /\ lock_status_file' = Full(proc[p].lock_status)
    /\ Goto(p, [proc[p] EXCEPT !.pc = "done", !.result = "unlock_all_done",
                               !.writes = @ + 1])
    /\ UNCHANGED <<admin_hash_file, user_hash_file, fs, vault, now, pre,
                   lastSet, lastLock>>

(* ----------------------- process, clock, environment ------------------ *)

\* The process exits; the history keeps a lock that has just succeeded.
Return(p) ==
    /\ proc[p].pc = "done"
    /\ proc' = [proc EXCEPT ![p] = Idle]
    /\ pre' = [pre EXCEPT ![p] = NoSnapshot]
    /\ lastLock' = IF proc[p].cmd = "lock" /\ proc[p].result = "locked"
                   THEN [folder |-> proc[p].folder,
                         items |-> pre[p].fs[Resolve(proc[p].folder)].items]
                   ELSE NoLock
    /\ UNCHANGED <<admin_hash_file, user_hash_file, lock_status_file, fs, vault,
                   now, lastSet>>

\* KeyboardInterrupt (or the process being killed) between two steps; the
\* step it was about to take is remembered.
Interrupt(p) ==
    /\ proc[p].pc \notin {"idle", "done"}
    /\ Goto(p, [proc[p] EXCEPT !.pc = "done", !.result = "interrupted",
                               !.stopped = proc[p].pc])
    /\ UNCHANGED <<admin_hash_file, user_hash_file, lock_status_file, fs, vault,
                   now, pre, lastSet, lastLock>>

\* A second passes.
Tick ==
    /\ now < MaxClock
    /\ now' = now + 1
    /\ UNCHANGED <<admin_hash_file, user_hash_file, lock_status_file, fs, vault,
                   proc, pre, lastSet, lastLock>>

\* Something other than the tool removes a vault directory while no command runs.
VaultLost ==
    /\ AllIdle
    /\ \E hidden_path \in VaultPaths :
         /\ vault[hidden_path].exists
         /\ vault' = [vault EXCEPT ![hidden_path] = NoVault]
    /\ lastLock' = NoLock
    /\ UNCHANGED <<admin_hash_file, user_hash_file, lock_status_file, fs, now,
                   proc, pre, lastSet>>

\* Someone puts a file into /tmp/x, under the name of a child that is not
\* there (it was moved to a vault directory), while no command runs.
Create ==
    /\ AllIdle
    /\ fs[X].kind = "dir"
    /\ \E item \in ContentsX :
         /\ item \notin fs[X].items
         /\ fs' = [fs EXCEPT ![X].items = @ \cup {item}]
    /\ lastLock' = NoLock
    /\ UNCHANGED <<admin_hash_file, user_hash_file, lock_status_file, vault, now,
                   proc, pre, lastSet>>

(* ---------------------------- specifications -------------------------- *)

\* main(): one command of the tool, begun.
main(p, args) ==
    \/ initial_setup_begin(p)
    \/ \E folder_path \in args : lock_folder_begin(p, folder_path)
    \/ \E folder_path \in args : unlock_folder_begin(p, folder_path)
    \/ \E admin_command \in AdminCommands : admin_mode_begin(p, admin_command)

\* One step of a command that has begun.
Step(p) ==
    \/ authenticate_user(p)
    \/ authenticate_admin(p)
    \/ initial_setup_admin_prompt(p)
    \/ initial_setup_user_prompt(p)
    \/ initial_setup_open_admin(p)
    \/ initial_setup_dump_admin(p)
    \/ initial_setup_open_user(p)
    \/ initial_setup_dump_user(p)
    \/ initial_setup_open_status(p)
    \/ initial_setup_dump_status(p)
    \/ lock_folder_load(p)
    \/ lock_folder_mkdir(p)
    \/ lock_folder_move(p)
    \/ lock_folder_open(p)
    \/ lock_folder_dump(p)
    \/ unlock_folder_load(p)
    \/ unlock_folder_move(p)
    \/ unlock_folder_rmdir(p)
    \/ unlock_folder_open(p)
    \/ unlock_folder_dump(p)
    \/ change_user_password_prompt(p)
    \/ change_user_password_open(p)
    \/ change_user_password_dump(p)
    \/ change_admin_password_prompt(p)
    \/ change_admin_password_open(p)
    \/ change_admin_password_dump(p)
    \/ show_lock_status(p)
    \/ unlock_all_folders_confirm(p)
    \/ unlock_all_folders_next(p)
    \/ unlock_all_folders_move(p)
    \/ unlock_all_folders_rmdir(p)
    \/ unlock_all_folders_open(p)
    \/ unlock_all_folders_dump(p)
    \/ Return(p)

\* Commands run one at a time, each to its end.
Next ==
    \/ main(1, PlainArgs)
    \/ Step(1)
    \/ Tick

Spec == Init /\ [][Next]_vars

\* Commands one at a time on one folder, with vault directories that may be
\* removed from outside.
NextEnv ==
    \/ main(1, OneFolderArgs)
    \/ Step(1)
    \/ Tick
    \/ VaultLost

SpecEnv == Init /\ [][NextEnv]_vars

\* Commands one at a time, on /tmp/x under its several names.
NextAlias ==
    \/ main(1, AliasArgs)
    \/ Step(1)
    \/ Tick

SpecAlias == Init /\ [][NextAlias]_vars

\* Commands one at a time on one folder, each of which may be interrupted at
\* any step.
NextCrash ==
    \/ main(1, OneFolderArgs)
    \/ Step(1)
    \/ Tick
    \/ Interrupt(1)

SpecCrash == Init /\ [][NextCrash]_vars

\* Commands one at a time on one folder, into which files of the names of
\* its former children may be put between two commands.
NextClash ==
    \/ main(1, OneFolderArgs)
    \/ Step(1)
    \/ Tick
    \/ Create

SpecClash == Init /\ [][NextClash]_vars

\* The steps of setup and of lock.
StepSetup(p) ==
    \/ initial_setup_admin_prompt(p)
    \/ initial_setup_user_prompt(p)
    \/ initial_setup_open_admin(p)
    \/ initial_setup_dump_admin(p)
    \/ initial_setup_open_user(p)
    \/ initial_setup_dump_user(p)
    \/ initial_setup_open_status(p)
    \/ initial_setup_dump_status(p)

StepLock(p) ==
    \/ lock_folder_load(p)
    \/ lock_folder_mkdir(p)
    \/ lock_folder_move(p)
    \/ lock_folder_open(p)
    \/ lock_folder_dump(p)

\* The tool is set up by one invocation alone; after that, each invocation
\* runs one lock of one of the two folders, at the same time as the others,
\* their steps interleaved in any order.
NextRace ==
    \/ AllIdle /\ initial_setup_begin(1)
    \/ StepSetup(1)
    \/ \E p \in Procs :
         \/ \E folder_path \in TwoFolderArgs : lock_folder_begin(p, folder_path)
         \/ authenticate_user(p)
         \/ StepLock(p)
    \/ proc[1].cmd = "setup" /\ Return(1)
    \/ Tick

SpecRace == Init /\ [][NextRace]_vars

(* ------------------------------- claims ------------------------------- *)

Done(p) == proc[p].pc = "done"

\* The registry as persisted, and as persisted when p's command started.
Registry == lock_status_file.data
RegistryBefore(p) == pre[p].registry.data

\* The role a command authenticates.
RoleOf(p) == IF proc[p].cmd = "admin" THEN "admin" ELSE "user"

C2_OneEntryPerCanonicalFolder ==
    Readable(lock_status_file) =>
        \A k1 \in DOMAIN Registry, k2 \in DOMAIN Registry :
            Resolve(k1) = Resolve(k2) => k1 = k2

\* C3: a lock or an unlock that was not given the user's password (its
\* argument was refused before the prompt, or the password entered is not the
\* one last set) ends as a failure, and nothing persisted differs from what
\* it was when the command started.
C3_FailedCommandMutatesNothing ==
    \A p \in Procs :
        ( /\ proc[p].cmd \in {"lock", "unlock"}
          /\ (~proc[p].asked \/ proc[p].entered # lastSet["user"]) )
        => /\ Persisted = pre[p]
           /\ Done(p) => proc[p].result \in {"not_found", "not_a_folder",
                                              "not_configured", "auth_failed"}

\* A lock was refused for a wrong password while a folder was locked.
C3_Witness ==
    \E p \in Procs :
        /\ Done(p)
        /\ proc[p].cmd = "lock"
        /\ proc[p].result = "auth_failed"
        /\ Readable(lock_status_file)
        /\ DOMAIN Registry # {}

\* C4: a lock of a folder that has an entry ends "already locked" and leaves
\* the registry, the vault directories and the folders as they were.
C4_SecondLockIsNoOp ==
    \A p \in Procs :
        ( /\ Done(p)
          /\ proc[p].cmd = "lock"
          /\ proc[p].authed
          /\ Readable(pre[p].registry)
          /\ proc[p].folder \in DOMAIN RegistryBefore(p) )
        => /\ proc[p].result = "already_locked"
           /\ Persisted = pre[p]

\* A lock of a locked folder has ended.
C4_Witness ==
    \E p \in Procs :
        /\ Done(p)
        /\ proc[p].cmd = "lock"
        /\ proc[p].result = "already_locked"
        /\ RegistryBefore(p)[proc[p].folder].items_count = 2

\* C5: an unlock of a folder whose entry names a vault directory that is gone
\* ends "hidden data not found", with the entry and everything else unchanged.
C5_MissingVaultAbortsUnlock ==
    \A p \in Procs :
        ( /\ Done(p)
          /\ proc[p].cmd = "unlock"
          /\ proc[p].authed
          /\ Readable(pre[p].registry)
          /\ proc[p].folder \in DOMAIN RegistryBefore(p)
          /\ ~pre[p].vault[RegistryBefore(p)[proc[p].folder].hidden_path].exists )
        => /\ proc[p].result = "hidden_missing"
           /\ Persisted = pre[p]

\* An unlock has found the vault directory of its entry gone.
C5_Witness ==
    \E p \in Procs :
        /\ Done(p)
        /\ proc[p].cmd = "unlock"
        /\ proc[p].result = "hidden_missing"
        /\ proc[p].folder \in DOMAIN Registry

\* The vault directory of an entry was emptied into its folder and removed.
Unsealed(p, folder_str) ==
    LET hidden_path == RegistryBefore(p)[folder_str].hidden_path IN
    /\ ~vault[hidden_path].exists
    /\ pre[p].vault[hidden_path].items \subseteq fs[Resolve(folder_str)].items

\* C6: unlock_all leaves the registry file alone during its loop and writes
\* it once after it; the entries it removed are those it unsealed, the
\* entries it kept are those for which a move failed (reported, and the loop
\* went on), and the kept entries are unchanged.
C6_UnlockAllKeepsFailedEntries ==
    \A p \in Procs :
        /\ proc[p].pc \in {"ua_confirm", "ua_loop", "ua_move"}
           => lock_status_file = pre[p].registry /\ proc[p].writes = 0
        /\ (Done(p) /\ proc[p].result = "unlock_all_done")
           => /\ proc[p].writes = 1
              /\ Readable(lock_status_file)
              /\ DOMAIN Registry \subseteq DOMAIN RegistryBefore(p)
              /\ \A k \in DOMAIN RegistryBefore(p) :
                     /\ k \notin DOMAIN Registry <=> Unsealed(p, k)
                     /\ k \in DOMAIN Registry <=> k \in proc[p].failed
                     /\ k \in DOMAIN Registry => Registry[k] = RegistryBefore(p)[k]
              /\ proc[p].unlocked_count =
                     Cardinality(DOMAIN RegistryBefore(p) \ DOMAIN Registry)

\* unlock_all has kept one entry, whose unseal failed, and removed another.
C6_Witness ==
    \E p \in Procs :
        /\ Done(p)
        /\ proc[p].result = "unlock_all_done"
        /\ proc[p].failed # {}
        /\ DOMAIN RegistryBefore(p) \ DOMAIN Registry # {}
        /\ DOMAIN Registry # {}

\* C7: a password entered at an authentication prompt is accepted exactly
\* when it is the password last set for the role, and a change of one role's
\* password leaves the other role's credential as it was.
C7_VerifyMatchesLastPassword ==
    \A p \in Procs :
        /\ ( /\ proc[p].asked
             /\ proc[p].result \notin {"user_password_changed",
                                       "admin_password_changed"} )
           => (proc[p].authed <=> proc[p].entered = lastSet[RoleOf(p)])
        /\ (Done(p) /\ proc[p].result = "user_password_changed")
           => /\ admin_hash_file = pre[p].admin
              /\ lastSet["user"] = proc[p].new_pass
              /\ verify_password(proc[p].new_pass, user_hash_file.data)
        /\ (Done(p) /\ proc[p].result = "admin_password_changed")
           => /\ user_hash_file = pre[p].user
              /\ lastSet["admin"] = proc[p].new_pass
              /\ verify_password(proc[p].new_pass, admin_hash_file.data)

\* An authenticated admin has changed the user password to a different one.
C7_Witness ==
    \E p \in Procs :
        /\ Done(p)
        /\ proc[p].result = "user_password_changed"
        /\ proc[p].asked
        /\ proc[p].authed
        /\ ~verify_password(proc[p].new_pass, pre[p].user.data)

SubOperations ==
    {"chg_user_prompt", "chg_user_open", "chg_user_dump",
     "chg_admin_prompt", "chg_admin_open", "chg_admin_dump",
     "status", "ua_confirm", "ua_loop", "ua_move", "ua_dump"}

\* C8: a sub-operation of the admin command runs only once the admin is
\* authenticated; outside an authenticated admin command (and outside the
\* first setup) both credentials stay what they were; an admin command whose
\* authentication failed has shown nothing and changed nothing.
C8_AdminGating ==
    \A p \in Procs :
        /\ proc[p].pc \in SubOperations
           => (proc[p].cmd = "admin" /\ proc[p].authed)
        /\ ( /\ proc[p].pc # "idle"
             /\ ~(proc[p].cmd = "admin" /\ proc[p].authed)
             /\ ~(proc[p].cmd = "setup" /\ pre[p].admin.st = "absent") )
           => (admin_hash_file = pre[p].admin /\ user_hash_file = pre[p].user)
        /\ (proc[p].cmd = "admin" /\ ~proc[p].authed)
           => /\ Persisted = pre[p]
              /\ proc[p].shown = NoData
              /\ proc[p].writes = 0

\* An unlock-all was refused for a wrong admin password while a folder was locked.
C8_Witness ==
    \E p \in Procs :
        /\ Done(p)
        /\ proc[p].cmd = "admin"
        /\ proc[p].sub = "unlock-all"
        /\ proc[p].asked
        /\ proc[p].result = "auth_failed"
        /\ DOMAIN Registry # {}

\* C9: a setup that completes where no admin credential exists leaves both
\* credentials (of the passwords given) and an empty registry; a setup where
\* one exists ends "already configured" and changes nothing persisted.
C9_SetupOnce ==
    \A p \in Procs :
        (Done(p) /\ proc[p].cmd = "setup")
        => IF pre[p].admin.st = "absent"
           THEN /\ proc[p].result = "setup_complete"
                /\ Readable(admin_hash_file)
                /\ verify_password(proc[p].admin_pass, admin_hash_file.data)
                /\ Readable(user_hash_file)
                /\ verify_password(proc[p].user_pass, user_hash_file.data)
                /\ lock_status_file = Full(<<>>)
           ELSE /\ proc[p].result = "already_configured"
                /\ Persisted = pre[p]

\* Setup was run again while two folders were locked.
C9_Witness ==
    \E p \in Procs :
        /\ Done(p)
        /\ proc[p].cmd = "setup"
        /\ proc[p].result = "already_configured"
        /\ Cardinality(DOMAIN Registry) = 2

\* C10 as stated: once no command is running (it returned or was
\* interrupted), no persisted file is empty or partly written.
C10_AtomicPersistence ==
    (\A p \in Procs : proc[p].pc \in {"idle", "done"})
    => /\ admin_hash_file.st # "empty"
       /\ user_hash_file.st # "empty"
       /\ lock_status_file.st # "empty"

\* No command is running: each has returned, was interrupted, or has not begun.
AtRest == \A p \in Procs : proc[p].pc \in {"idle", "done"}

\* Two locks that have both ended with success.
BothLocked(p, q) ==
    /\ p # q
    /\ Done(p) /\ proc[p].cmd = "lock" /\ proc[p].result = "locked"
    /\ Done(q) /\ proc[q].cmd = "lock" /\ proc[q].result = "locked"

\* C11: when two locks of different folders have run at the same time, each
\* having loaded the registry before the other saved it, and both have
\* reported success, then (once no command is running) the persisted registry
\* is what the last lock to save held in memory; if that was one of the two,
\* the registry has the entry of its folder and not the entry of the other
\* folder, although the vault directory of each of them holds what it moved.
C11_LostUpdate ==
    \A p \in Procs, q \in Procs :
        ( /\ AtRest
          /\ BothLocked(p, q)
          /\ proc[p].folder # proc[q].folder
          /\ proc[q].folder \notin DOMAIN proc[p].lock_status
          /\ proc[p].folder \notin DOMAIN proc[q].lock_status )
        => /\ Readable(lock_status_file)
           /\ \E r \in Procs :
                 /\ Done(r) /\ proc[r].result = "locked"
                 /\ Registry = proc[r].lock_status
           /\ Registry = proc[q].lock_status
              => /\ proc[q].folder \in DOMAIN Registry
                 /\ proc[p].folder \notin DOMAIN Registry
           /\ vault[proc[p].hidden_path].exists
           /\ Cardinality(vault[proc[p].hidden_path].items) = proc[p].items_moved
           /\ vault[proc[p].hidden_path].items \cap fs[Resolve(proc[p].folder)].items = {}

\* Two locks have reported success; the two children of /tmp/x are in its
\* vault directory and the registry has no entry for /tmp/x.
C11_Witness ==
    \E p \in Procs, q \in Procs :
        /\ BothLocked(p, q)
        /\ proc[p].folder = X
        /\ proc[q].folder = Y
        /\ vault[proc[p].hidden_path].items = ContentsX
        /\ Readable(lock_status_file)
        /\ X \notin DOMAIN Registry
        /\ Y \in DOMAIN Registry

\* The steps at which a command waits for a password or for a confirmation.
Prompts ==
    {"auth_user", "auth_admin", "setup_admin_prompt", "setup_user_prompt",
     "chg_user_prompt", "chg_admin_prompt", "ua_confirm"}

\* C12: a command interrupted while it waits at a password prompt or at the
\* confirmation prompt leaves the two credentials, the registry, the folders
\* and the vault directories as they were when it started.
C12_CancelAtPromptChangesNothing ==
    \A p \in Procs :
        /\ proc[p].pc \in Prompts => Persisted = pre[p]
        /\ ( /\ Done(p)
             /\ proc[p].result = "interrupted"
             /\ proc[p].stopped \in Prompts )
           => Persisted = pre[p]

\* An unlock-all was interrupted at its confirmation while a folder was locked.
C12_Witness ==
    \E p \in Procs :
        /\ Done(p)
        /\ proc[p].result = "interrupted"
        /\ proc[p].stopped = "ua_confirm"
        /\ proc[p].authed
        /\ Readable(lock_status_file)
        /\ DOMAIN Registry # {}

\* C13 as stated, read for the states in which no command is running (a lock
\* that is under way has necessarily moved children before it saves): every
\* vault directory that holds an item is the vault path of an entry of the
\* persisted registry.
C13_VaultContentIsReferenced ==
    AtRest =>
        \A hidden_path \in VaultPaths :
            vault[hidden_path].items # {}
            => /\ Readable(lock_status_file)
               /\ \E k \in DOMAIN Registry : Registry[k].hidden_path = hidden_path

\* A lock or an unlock begun while there is no user credential file, and an
\* admin command begun while there is no admin credential file.
BeforeSetupUser(p) ==
    proc[p].cmd \in {"lock", "unlock"} /\ pre[p].user.st = "absent"

BeforeSetupAdmin(p) ==
    proc[p].cmd = "admin" /\ pre[p].admin.st = "absent"

\* C14 as stated: without a user credential, lock and unlock end "not
\* configured"; without an admin credential every admin sub-command ends "not
\* configured"; none of them changes anything.
C14_BeforeSetupNotConfigured ==
    \A p \in Procs :
        (BeforeSetupUser(p) \/ BeforeSetupAdmin(p))
        => /\ Persisted = pre[p]
           /\ Done(p) => proc[p].result = "not_configured"

\* C14 as amended: the same, except that a lock whose argument is not an
\* existing directory ends with the validation error instead; and none of
\* these commands asks for a password or reaches a step that reads the
\* registry.
C14_BeforeSetupNotConfiguredOrInvalid ==
    \A p \in Procs :
        (BeforeSetupUser(p) \/ BeforeSetupAdmin(p))
        => /\ Persisted = pre[p]
           /\ ~proc[p].asked
           /\ proc[p].pc \in {"auth_user", "auth_admin", "done"}
           /\ proc[p].shown = NoData
           /\ Done(p) =>
                proc[p].result =
                    IF proc[p].cmd # "lock" THEN "not_configured"
                    ELSE IF pre[p].fs[Resolve(proc[p].folder)].kind = "none"
                    THEN "not_found"
                    ELSE IF pre[p].fs[Resolve(proc[p].folder)].kind # "dir"
                    THEN "not_a_folder"
                    ELSE "not_configured"

\* A lock of the folder /tmp/x has ended "not configured" before any setup.
C14_Witness ==
    \E p \in Procs :
        /\ Done(p)
        /\ proc[p].cmd = "lock"
        /\ proc[p].folder = X
        /\ pre[p].user.st = "absent"
        /\ proc[p].result = "not_configured"

\* C15: a lock that ends with success, whatever moves of children failed,
\* leaves the folder with an entry whose vault directory it created, whose
\* item count is the number of children in that vault directory; the children
\* the folder had are each either still in the folder (their move failed) or
\* in the vault directory (their move succeeded), and there are as many
\* children left in the folder as there were warnings.
C15_PartialSeal ==
    \A p \in Procs :
        (Done(p) /\ proc[p].cmd = "lock" /\ proc[p].result = "locked")
        => LET folder == Resolve(proc[p].folder)
               hidden_path == proc[p].hidden_path
               before == pre[p].fs[folder].items
           IN  /\ Readable(lock_status_file)
               /\ proc[p].folder \in DOMAIN Registry
               /\ Registry[proc[p].folder].hidden_path = hidden_path
               /\ ~pre[p].vault[hidden_path].exists
               /\ vault[hidden_path].exists
               /\ Registry[proc[p].folder].items_count =
                      Cardinality(vault[hidden_path].items)
               /\ fs[folder].items \cup vault[hidden_path].items = before
               /\ fs[folder].items \cap vault[hidden_path].items = {}
               /\ Cardinality(fs[folder].items) = proc[p].warnings

\* A lock of /tmp/x has succeeded with one child moved and one child left.
C15_Witness ==
    \E p \in Procs :
        /\ Done(p)
        /\ proc[p].cmd = "lock"
        /\ proc[p].result = "locked"
        /\ proc[p].warnings = 1
        /\ Registry[proc[p].folder].items_count = 1
        /\ Cardinality(fs[Resolve(proc[p].folder)].items) = 1
        /\ Cardinality(vault[proc[p].hidden_path].items) = 1

\* The number of files of one name: in the folders and in the vault directories.
Count(files, vaults, item) ==
    Cardinality({pl \in Places : item \in files[pl].items})
    + Cardinality({hidden_path \in VaultPaths : item \in vaults[hidden_path].items})

\* C16: at every step of a command (commands running one at a time, moves
\* failing in any pattern, names clashing with files put into the folder),
\* there are as many files of each name as when the command started: none
\* was deleted, duplicated or overwritten; a file is in a folder or in a vault
\* directory that exists, and a vault directory that the command removed held
\* nothing that is not in a folder or vault now.
C16_ContentConservation ==
    \A p \in Procs :
        proc[p].pc # "idle"
        => /\ \A item \in ContentsX \cup ContentsY :
                  Count(fs, vault, item) = Count(pre[p].fs, pre[p].vault, item)
           /\ \A hidden_path \in VaultPaths :
                  /\ vault[hidden_path].items # {} => vault[hidden_path].exists
                  /\ (pre[p].vault[hidden_path].exists /\ ~vault[hidden_path].exists)
                     => pre[p].vault[hidden_path].items \subseteq fs[X].items

\* An unlock has ended with a child left in the vault directory because the
\* folder held a file of its name.
C16_Witness ==
    \E p \in Procs :
        /\ Done(p)
        /\ proc[p].cmd = "unlock"
        /\ proc[p].result = "unlocked"
        /\ proc[p].warnings > 0
        /\ \E item \in ContentsX :
             /\ item \in pre[p].fs[X].items
             /\ item \in fs[X].items
             /\ item \in vault[proc[p].hidden_path].items

\* C17: no two entries of the registry name the same vault directory; a lock
\* moves children only into the vault directory it has created itself, every
\* other vault directory staying as it was; and a lock whose derived vault
\* name (base name of the folder, second of the clock) is taken ends with an
\* error, with nothing moved and the registry as it was.
C17_VaultExclusivity ==
    /\ Readable(lock_status_file) =>
           \A k1 \in DOMAIN Registry, k2 \in DOMAIN Registry :
               Registry[k1].hidden_path = Registry[k2].hidden_path => k1 = k2
    /\ \A p \in Procs :
           (proc[p].cmd = "lock" /\ proc[p].hidden_path # <<>>)
           => /\ \A hidden_path \in VaultPaths \ {proc[p].hidden_path} :
                     vault[hidden_path] = pre[p].vault[hidden_path]
              /\ IF pre[p].vault[proc[p].hidden_path].exists
                 THEN /\ Done(p)
                      /\ proc[p].result = "error"
                      /\ Persisted = pre[p]
                 ELSE /\ vault[proc[p].hidden_path].exists
                      /\ vault[proc[p].hidden_path].items
                            \subseteq pre[p].fs[Resolve(proc[p].folder)].items

\* A lock has failed because the vault name it derived is that of the entry
\* of a folder of the same base name, locked in the same second.
C17_Witness ==
    \E p \in Procs :
        /\ Done(p)
        /\ proc[p].cmd = "lock"
        /\ proc[p].result = "error"
        /\ pre[p].vault[proc[p].hidden_path].exists
        /\ \E k \in DOMAIN Registry :
             /\ k # proc[p].folder
             /\ name(k) = name(proc[p].folder)
             /\ Registry[k].hidden_path = proc[p].hidden_path
             /\ Registry[k].locked_at = now

\* A lock has failed because the vault directory of an earlier lock of the
\* folder, not emptied by the unlock, is still there.
C17_LeftoverVault ==
    \E p \in Procs :
        /\ Done(p)
        /\ proc[p].cmd = "lock"
        /\ proc[p].result = "error"
        /\ pre[p].vault[proc[p].hidden_path].items # {}
        /\ DOMAIN Registry = {}

\* C18 as stated, read for the states in which no command is running: when
\* setup would report "already configured" (the admin credential file
\* exists), the user credential and the registry are there too, complete.
C18_WhollyInitialized ==
    AtRest =>
        (admin_hash_file_exists
         => Readable(user_hash_file) /\ Readable(lock_status_file))

\* The vault directory of an entry was missing when p's command started.
VaultMissingBefore(p, folder_str) ==
    ~pre[p].vault[RegistryBefore(p)[folder_str].hidden_path].exists

\* C19: an unlock_all that was confirmed removes every entry whose vault
\* directory is missing, counts it as unlocked and restores nothing into its
\* folder; if nothing failed in its loop the registry it saves is empty. An
\* unlock of such an entry ends "hidden data not found" and keeps the entry.
C19_UnlockAllDropsEntryOfMissingVault ==
    \A p \in Procs :
        /\ (Done(p) /\ proc[p].result = "unlock_all_done")
           => /\ Readable(lock_status_file)
              /\ \A k \in DOMAIN RegistryBefore(p) :
                     VaultMissingBefore(p, k)
                     => /\ k \notin DOMAIN Registry
                        /\ k \notin proc[p].failed
                        /\ fs[Resolve(k)] = pre[p].fs[Resolve(k)]
              /\ proc[p].unlocked_count =
                     Cardinality(DOMAIN RegistryBefore(p) \ DOMAIN Registry)
              /\ proc[p].failed = {} => DOMAIN Registry = {}
        /\ ( /\ Done(p)
             /\ proc[p].cmd = "unlock"
             /\ proc[p].authed
             /\ Readable(pre[p].registry)
             /\ proc[p].folder \in DOMAIN RegistryBefore(p)
             /\ VaultMissingBefore(p, proc[p].folder) )
           => /\ proc[p].result = "hidden_missing"
              /\ lock_status_file = pre[p].registry

\* unlock_all has removed the entry of /tmp/x, whose vault directory was
\* gone with the two children in it, and counted it as unlocked.
C19_Witness ==
    \E p \in Procs :
        /\ Done(p)
        /\ proc[p].result = "unlock_all_done"
        /\ X \in DOMAIN RegistryBefore(p)
        /\ RegistryBefore(p)[X].items_count = 2
        /\ VaultMissingBefore(p, X)
        /\ proc[p].unlocked_count = 1
        /\ DOMAIN Registry = {}
        /\ fs[X].items = {}

\* The outcomes that tell whether a folder is locked.
LockStateOutcomes == {"already_locked", "not_locked", "hidden_missing", "locked", "unlocked"}

\* C20: a lock or an unlock that was given a password other than the user's
\* ends "authentication failed" whatever the registry and the vault hold (so
\* its outcome is the same with and without an entry, with and without the
\* vault directory); a command that is not authenticated never reaches a step
\* that reads the registry; and the outcomes that tell the lock state occur
\* only in commands that were given the user's password.
C20_NoLockStateLeak ==
    \A p \in Procs :
        proc[p].cmd \in {"lock", "unlock"}
        => /\ (proc[p].asked /\ proc[p].entered # lastSet["user"])
              => /\ Done(p)
                 /\ proc[p].result = "auth_failed"
           /\ ~proc[p].authed => proc[p].pc \in {"auth_user", "done"}
           /\ proc[p].result \in LockStateOutcomes
              => /\ proc[p].authed
                 /\ proc[p].entered = lastSet["user"]

\* An unlock given a wrong password has ended "authentication failed" for a
\* folder that has an entry whose vault directory is gone.
C20_Witness ==
    \E p \in Procs :
        /\ Done(p)
        /\ proc[p].cmd = "unlock"
        /\ proc[p].asked
        /\ proc[p].entered # lastSet["user"]
        /\ proc[p].result = "auth_failed"
        /\ Readable(lock_status_file)
        /\ proc[p].folder \in DOMAIN Registry
        /\ ~vault[Registry[proc[p].folder].hidden_path].exists

====
